---------------------------- MODULE Spec2Model ----------------------------
(***************************************************************************)
(* tunnels: a client that streams a mono 16-bit WAV file to a WebSocket    *)
(* server in fixed-duration chunks while a second thread logs the server's *)
(* messages.                                                               *)
(*                                                                         *)
(*   AudioStream (src/tunnels/audio.py)   validation, chunking, encoding   *)
(*   AudioClient (src/tunnels/client.py)  run(), the send thread, the      *)
(*                                        receive thread, shutdown()       *)
(*   AudioClient (src/test_client.py)     the earlier single-file client:  *)
(*                                        its send thread, as a function   *)
(*                                                                         *)
(* Three threads of control are modelled with one program counter each:    *)
(* mpc (the caller's thread: constructor, run(), shutdown()), spc (the     *)
(* sender thread, send_audio) and rpc (the receiver thread,                *)
(* receive_messages).  xpc is a second caller of the public shutdown()     *)
(* method.  The WebSocket, the peer, the file system and the interrupt     *)
(* signal are the environment: their outcomes are nondeterministic.        *)
(***************************************************************************)
EXTENDS Integers, Sequences, FiniteSets, TLC

(***************************************************************************)
(* Bounds of the explored inputs.                                          *)
(***************************************************************************)
\* the WAV file holds 0..MaxFrames frames
MaxFrames == 3
\* chunk durations are -1..MaxDur units of 1/DurDen second
MaxDur == 3
\* sample rates (configured and of the file) are 0..MaxRate
MaxRate == 2
\* calls of shutdown() made by the caller besides the one run() makes
MaxExtraShutdowns == 1
\* the denominator of the chunk durations: durations are multiples of 1/DurDen s
DurDen == 2

(***************************************************************************)
(* Numbers of the program.                                                 *)
(***************************************************************************)
\* audio.py:35  wf.getsampwidth() != 2
SampWidth16 == 2
\* audio.py:37  wf.getnchannels() != 1
MonoChannels == 1

(***************************************************************************)
(* The content of the explored files: frame i of every file is Sample(i),  *)
(* a signed 16-bit value; the values are pairwise distinct and include     *)
(* both ends of the int16 range.                                           *)
(***************************************************************************)
Sample(i) ==
    IF i % 2 = 1 THEN 32767 - (i - 1) * 100 ELSE (0 - 32768) + (i - 2) * 100

Samples(n) == [i \in 1..n |-> Sample(i)]

VARIABLES
    \* ---- configuration (AudioClient.__init__ arguments and the file)
    source_exists,      \* self.source.exists()
    chunk_duration,     \* self.chunk_duration, in units of 1/DurDen second
    sample_rate,        \* self.sample_rate
    wav,                \* the file: [ok, framerate, sampwidth, nchannels, frames]
    \* ---- AudioClient
    shutdown_flag,      \* self.shutdown_flag (threading.Event)
    ws,                 \* self.ws: "none" | "created" | "open" | "closed"
    \* ---- the caller's thread
    mpc,                \* position of the caller in __init__ / run / shutdown
    configError,        \* the ValueError validate_config raised, or "none"
    pending,            \* exception in flight while run()'s finally executes
    interrupted,        \* the interrupt signal has been delivered
    connectFailed,      \* ws.connect raised
    runShutdowns,       \* invocations of shutdown() by run()'s finally
    \* ---- the sender thread
    spc,                \* position of send_audio
    filePos,            \* frames consumed from wf by read_chunks
    chunk,              \* the loop variable chunk
    total_chunks,       \* send_audio's total_chunks
    processed_chunks,   \* send_audio's processed_chunks
    sendCalls,          \* the chunks whose encoding was passed to ws.send, in call order
    inflight,           \* ws.send calls that have not returned
    \* ---- the receiver thread
    rpc,                \* position of receive_messages
    recvCalls,          \* whether ws.recv was ever called
    \* ---- the log
    errlog,             \* the logger.error lines emitted, by origin
    \* ---- shutdown() called by the caller from another context
    xpc,                \* position of that call
    extCalls,           \* number of such calls started
    extRaised,          \* an exception left such a call
    \* ---- the transport
    closeCalls,         \* calls of ws.close()
    closeEffects        \* times an open connection was actually closed

cfgvars == <<source_exists, chunk_duration, sample_rate, wav>>
mainvars == <<mpc, configError, pending, interrupted, connectFailed, runShutdowns>>
sendvars == <<spc, filePos, chunk, total_chunks, processed_chunks, sendCalls, inflight>>
recvvars == <<rpc, recvCalls>>
extvars == <<xpc, extCalls, extRaised>>
closevars == <<closeCalls, closeEffects>>
vars == <<cfgvars, shutdown_flag, ws, mainvars, sendvars, recvvars, errlog,
          extvars, closevars>>

-----------------------------------------------------------------------------
(***************************************************************************)
(* AudioStream                                                             *)
(***************************************************************************)

\* A validate_config that looks at the sample rate before the chunk duration.
validate_config_rate_first ==
    IF ~source_exists THEN "not_found"
    ELSE IF sample_rate <= 0 THEN "bad_rate"
    ELSE IF chunk_duration <= 0 THEN "bad_duration"
    ELSE IF ~wav.ok THEN "invalid_wav"
    ELSE IF wav.framerate # sample_rate THEN "rate_mismatch"
    ELSE IF wav.sampwidth # SampWidth16 THEN "bad_width"
    ELSE IF wav.nchannels # MonoChannels THEN "bad_channels"
    ELSE "ok"

\* audio.py:18-40.  The first failing check decides the ValueError.
validate_config ==
    IF ~source_exists THEN "not_found"
    ELSE IF chunk_duration <= 0 THEN "bad_duration"
    ELSE IF sample_rate <= 0 THEN "bad_rate"
    ELSE IF ~wav.ok THEN "invalid_wav"
    ELSE IF wav.framerate # sample_rate THEN "rate_mismatch"
    ELSE IF wav.sampwidth # SampWidth16 THEN "bad_width"
    ELSE IF wav.nchannels # MonoChannels THEN "bad_channels"
    ELSE "ok"

\* A chunk size rounded to the nearest frame instead of truncated.
chunk_frames_rounded == (2 * chunk_duration * sample_rate + DurDen) \div (2 * DurDen)

\* audio.py:49 and :56.  int(self.chunk_duration * self.sample_rate): the
\* product is positive for a validated source and int() truncates it.
chunk_frames == (chunk_duration * sample_rate) \div DurDen

\* audio.py:52.  The integer division raises ZeroDivisionError when
\* chunk_frames is 0.
get_total_chunks_raises == chunk_frames = 0

\* A get_total_chunks that divides without rounding up.
get_total_chunks_round_down == Len(wav.frames) \div chunk_frames

\* audio.py:47-52.  (frames + chunk_frames - 1) // chunk_frames, the value
\* returned when the division does not raise.
get_total_chunks == (Len(wav.frames) + chunk_frames - 1) \div chunk_frames

\* A readframes that returns nothing when fewer than n frames are left.
readframes_whole_only(pos, n) ==
    IF pos + n <= Len(wav.frames) THEN SubSeq(wav.frames, pos + 1, pos + n)
    ELSE <<>>

\* audio.py:60.  wf.readframes(n) from position pos: at most n frames, fewer
\* at the end of the file, none when n is 0 or the file is exhausted.
readframes(pos, n) ==
    LET last == IF pos + n <= Len(wav.frames) THEN pos + n ELSE Len(wav.frames)
    IN  SubSeq(wav.frames, pos + 1, last)

\* audio.py:54-65.  The whole sequence of chunks read_chunks yields.
RECURSIVE ChunksFrom(_)
ChunksFrom(pos) ==
    LET frames == readframes(pos, chunk_frames)
    IN  IF frames = <<>> THEN <<>>
        ELSE <<frames>> \o ChunksFrom(pos + Len(frames))

read_chunks == ChunksFrom(0)

\* the exponent of the highest power of two not above n >= 1
RECURSIVE Log2(_)
Log2(n) == IF n < 2 THEN 0 ELSE 1 + Log2(n \div 2)

RECURSIVE Pow2(_)
Pow2(n) == IF n = 0 THEN 1 ELSE 2 * Pow2(n - 1)

\* An encoding that loses the sign of the samples.
Float32Bytes_unsigned(s) ==
    IF s = 0 THEN <<0, 0, 0, 0>>
    ELSE LET a == IF s < 0 THEN 0 - s ELSE s
             e == Log2(a)
             biased == 127 + e - 15
             mant == (a - Pow2(e)) * Pow2(23 - e)
         IN  << mant % 256,
                (mant \div 256) % 256,
                (biased % 2) * 128 + (mant \div 65536),
                biased \div 2 >>

\* audio.py:44.  The IEEE-754 single s / 32768.0 as its four bytes in memory
\* order (little-endian).  |s| <= 32768 has at most 16 significant bits, so
\* the quotient is exact: sign, exponent e - 15 (biased by 127) and the 23-bit
\* fraction of |s| = 1.f * 2^e.
Float32Bytes(s) ==
    IF s = 0 THEN <<0, 0, 0, 0>>
    ELSE LET a == IF s < 0 THEN 0 - s ELSE s
             e == Log2(a)
             biased == 127 + e - 15
             mant == (a - Pow2(e)) * Pow2(23 - e)
             sign == IF s < 0 THEN 1 ELSE 0
         IN  << mant % 256,
                (mant \div 256) % 256,
                (biased % 2) * 128 + (mant \div 65536),
                sign * 128 + (biased \div 2) >>

\* audio.py:45.  float32_data.tobytes(): the samples' bytes in array order
RECURSIVE tobytes(_)
tobytes(samples) ==
    IF samples = <<>> THEN <<>>
    ELSE Float32Bytes(Head(samples)) \o tobytes(Tail(samples))

\* audio.py:45.  base64.b64encode: every 3 bytes give 4 characters, written
\* here as their indices 0..63 in the base64 alphabet, 64 standing for the
\* padding "=" of an incomplete last group.
RECURSIVE b64encode(_)
b64encode(b) ==
    IF Len(b) = 0 THEN <<>>
    ELSE IF Len(b) = 1 THEN
        << b[1] \div 4, (b[1] % 4) * 16, 64, 64 >>
    ELSE IF Len(b) = 2 THEN
        << b[1] \div 4, (b[1] % 4) * 16 + (b[2] \div 16), (b[2] % 16) * 4, 64 >>
    ELSE
        << b[1] \div 4, (b[1] % 4) * 16 + (b[2] \div 16),
           (b[2] % 16) * 4 + (b[3] \div 64), b[3] % 64 >>
        \o b64encode(SubSeq(b, 4, Len(b)))

\* audio.py:42-45
encode_chunk(c) == b64encode(tobytes(c))

-----------------------------------------------------------------------------
(***************************************************************************)
(* Initial states: every configuration the constructor can be given.       *)
(***************************************************************************)
Init ==
    /\ source_exists \in BOOLEAN
    /\ chunk_duration \in (0 - 1)..MaxDur
    /\ sample_rate \in 0..MaxRate
    /\ wav \in [ok : BOOLEAN,
                framerate : 1..MaxRate,
                sampwidth : {1, SampWidth16},
                nchannels : {MonoChannels, 2},
                frames : {Samples(n) : n \in 0..MaxFrames}]
    /\ shutdown_flag = FALSE
    /\ ws = "none"
    /\ mpc = "new"
    /\ configError = "none"
    /\ pending = "none"
    /\ interrupted = FALSE
    /\ connectFailed = FALSE
    /\ runShutdowns = 0
    /\ spc = "idle"
    /\ filePos = 0
    /\ chunk = <<>>
    /\ total_chunks = 0
    /\ processed_chunks = 0
    /\ sendCalls = <<>>
    /\ inflight = 0
    /\ rpc = "idle"
    /\ recvCalls = FALSE
    /\ errlog = {}
    /\ xpc = "idle"
    /\ extCalls = 0
    /\ extRaised = FALSE
    /\ closeCalls = 0
    /\ closeEffects = 0

-----------------------------------------------------------------------------
(***************************************************************************)
(* The transport (websocket.WebSocket), as the client uses it.             *)
(***************************************************************************)

\* client.py:105-107.  `if self.ws: self.ws.close()`: no call without a
\* WebSocket object; close() ends an open connection and is a no-op on a
\* socket that is not connected.
ws_close ==
    IF ws = "none"
    THEN UNCHANGED <<ws, closevars>>
    ELSE /\ closeCalls' = closeCalls + 1
         /\ ws' = IF ws = "open" THEN "closed" ELSE ws
         /\ closeEffects' = IF ws = "open" THEN closeEffects + 1 ELSE closeEffects

-----------------------------------------------------------------------------
(***************************************************************************)
(* The caller's thread: AudioClient.__init__, run() and shutdown().        *)
(***************************************************************************)

\* the statements of run()'s try block, client.py:77-92
TryBlock ==
    {"create", "connect", "start_sender", "start_receiver",
     "join_sender", "join_receiver"}

\* how run() ends once its finally clause is through: it returns, or the
\* exception that was in flight propagates to the caller
AfterShutdown == IF pending = "none" THEN "returned" ELSE "raised"

\* client.py:18-26.  The constructor validates; a ValueError reaches the caller.
Construct ==
    /\ mpc = "new"
    /\ IF validate_config = "ok"
       THEN mpc' = "constructed" /\ UNCHANGED configError
       ELSE mpc' = "config_error" /\ configError' = validate_config
    /\ UNCHANGED <<cfgvars, shutdown_flag, ws, pending, interrupted, connectFailed,
                   runShutdowns, sendvars, recvvars, errlog, extvars, closevars>>

\* client.py:75-77.  The caller invokes run().
Run ==
    /\ mpc = "constructed"
    /\ mpc' = "create"
    /\ UNCHANGED <<cfgvars, shutdown_flag, ws, configError, pending, interrupted,
                   connectFailed, runShutdowns, sendvars, recvvars, errlog,
                   extvars, closevars>>

\* client.py:79.  self.ws = WebSocket()
RunCreate ==
    /\ mpc = "create"
    /\ ws' = "created"
    /\ mpc' = "connect"
    /\ UNCHANGED <<cfgvars, shutdown_flag, configError, pending, interrupted,
                   connectFailed, runShutdowns, sendvars, recvvars, errlog,
                   extvars, closevars>>

\* client.py:80-81.  self.ws.connect(...) succeeds.
RunConnectOk ==
    /\ mpc = "connect"
    /\ ws' = "open"
    /\ mpc' = "start_sender"
    /\ UNCHANGED <<cfgvars, shutdown_flag, configError, pending, interrupted,
                   connectFailed, runShutdowns, sendvars, recvvars, errlog,
                   extvars, closevars>>

\* A run() that goes on to start the threads after a failed connect.
RunConnectFail_continue ==
    /\ mpc = "connect"
    /\ connectFailed' = TRUE
    /\ mpc' = "start_sender"
    /\ UNCHANGED <<cfgvars, shutdown_flag, ws, configError, pending, interrupted,
                   runShutdowns, sendvars, recvvars, errlog, extvars, closevars>>

\* client.py:80, 96.  self.ws.connect(...) raises: control goes to
\* `except Exception`.
RunConnectFail ==
    /\ mpc = "connect"
    /\ connectFailed' = TRUE
    /\ mpc' = "except_error"
    /\ UNCHANGED <<cfgvars, shutdown_flag, ws, configError, pending, interrupted,
                   runShutdowns, sendvars, recvvars, errlog, extvars, closevars>>

\* client.py:84, 87.  sender.start()
RunStartSender ==
    /\ mpc = "start_sender"
    /\ spc' = "total"
    /\ mpc' = "start_receiver"
    /\ UNCHANGED <<cfgvars, shutdown_flag, ws, configError, pending, interrupted,
                   connectFailed, runShutdowns, filePos, chunk, total_chunks,
                   processed_chunks, sendCalls, inflight, recvvars, errlog,
                   extvars, closevars>>

\* client.py:85, 88.  receiver.start()
RunStartReceiver ==
    /\ mpc = "start_receiver"
    /\ rpc' = "loop"
    /\ mpc' = "join_sender"
    /\ UNCHANGED <<cfgvars, shutdown_flag, ws, configError, pending, interrupted,
                   connectFailed, runShutdowns, sendvars, recvCalls, errlog,
                   extvars, closevars>>

\* the sender thread has ended (its target returned or raised)
SenderEnded == spc \in {"exhausted", "stopped", "failed", "died"}

\* the receiver thread has ended
ReceiverEnded == rpc = "done"

\* client.py:91.  sender.join() returns once the sender thread has ended.
RunJoinSender ==
    /\ mpc = "join_sender"
    /\ SenderEnded
    /\ mpc' = "join_receiver"
    /\ UNCHANGED <<cfgvars, shutdown_flag, ws, configError, pending, interrupted,
                   connectFailed, runShutdowns, sendvars, recvvars, errlog,
                   extvars, closevars>>

\* client.py:92, 98-99.  receiver.join() returns once the receiver thread has
\* ended; the try block is through and the finally clause calls shutdown().
RunJoinReceiver ==
    /\ mpc = "join_receiver"
    /\ ReceiverEnded
    /\ mpc' = "sd_flag"
    /\ runShutdowns' = runShutdowns + 1
    /\ UNCHANGED <<cfgvars, shutdown_flag, ws, configError, pending, interrupted,
                   connectFailed, sendvars, recvvars, errlog, extvars, closevars>>

\* A run() whose KeyboardInterrupt handler returns without the finally clause.
RunExceptInterrupt_noshutdown ==
    /\ mpc = "except_interrupt"
    /\ mpc' = "returned"
    /\ UNCHANGED <<cfgvars, shutdown_flag, ws, configError, pending, interrupted,
                   connectFailed, runShutdowns, sendvars, recvvars, errlog,
                   extvars, closevars>>

\* client.py:94-95, 98-99.  except KeyboardInterrupt: log; then the finally
\* clause calls shutdown().
RunExceptInterrupt ==
    /\ mpc = "except_interrupt"
    /\ mpc' = "sd_flag"
    /\ runShutdowns' = runShutdowns + 1
    /\ UNCHANGED <<cfgvars, shutdown_flag, ws, configError, pending, interrupted,
                   connectFailed, sendvars, recvvars, errlog, extvars, closevars>>

\* client.py:96-99.  except Exception: logger.error; then the finally clause
\* calls shutdown().
RunExceptError ==
    /\ mpc = "except_error"
    /\ errlog' = errlog \cup {"run"}
    /\ mpc' = "sd_flag"
    /\ runShutdowns' = runShutdowns + 1
    /\ UNCHANGED <<cfgvars, shutdown_flag, ws, configError, pending, interrupted,
                   connectFailed, sendvars, recvvars, extvars, closevars>>

\* client.py:101-104.  shutdown(): log, self.shutdown_flag.set()
ShutdownSetFlag ==
    /\ mpc = "sd_flag"
    /\ shutdown_flag' = TRUE
    /\ mpc' = "sd_close"
    /\ UNCHANGED <<cfgvars, ws, configError, pending, interrupted, connectFailed,
                   runShutdowns, sendvars, recvvars, errlog, extvars, closevars>>

\* A shutdown() that sets the flag and leaves the transport open.
ShutdownClose_noclose ==
    /\ mpc = "sd_close"
    /\ mpc' = AfterShutdown
    /\ UNCHANGED <<cfgvars, shutdown_flag, ws, configError, pending, interrupted,
                   connectFailed, runShutdowns, sendvars, recvvars, errlog,
                   extvars, closevars>>

\* A shutdown() without the try/except around self.ws.close().
ShutdownClose_noswallow ==
    /\ mpc = "sd_close"
    /\ \E closeRaises \in BOOLEAN :
          /\ closeRaises => ws # "none"
          /\ ws_close
          /\ mpc' = IF closeRaises THEN "raised" ELSE AfterShutdown
          /\ pending' = IF closeRaises THEN "CloseError" ELSE pending
    /\ UNCHANGED <<cfgvars, shutdown_flag, configError, interrupted,
                   connectFailed, runShutdowns, sendvars, recvvars, errlog, extvars>>

\* client.py:105-109.  shutdown(): close the transport if there is one; the
\* bare `except: pass` absorbs whatever close() raises, and run() ends.
ShutdownClose ==
    /\ mpc = "sd_close"
    /\ \E closeRaises \in BOOLEAN :
          /\ closeRaises => ws # "none"
          /\ ws_close
          /\ mpc' = AfterShutdown
    /\ UNCHANGED <<cfgvars, shutdown_flag, configError, pending, interrupted,
                   connectFailed, runShutdowns, sendvars, recvvars, errlog, extvars>>

\* The interrupt signal (SIGINT): Python raises KeyboardInterrupt in the main
\* thread at the statement it is executing.  One signal is delivered at most.
\*   client.py:77-95   inside the try block: caught by `except KeyboardInterrupt`
\*   client.py:96-99   inside the `except Exception` handler: the finally clause
\*                     runs shutdown() and KeyboardInterrupt then propagates
\*   client.py:103-104 inside shutdown() before the flag is set: shutdown() is
\*                     abandoned and KeyboardInterrupt propagates out of run()
\*   client.py:106-109 inside self.ws.close(): absorbed by the bare except
Interrupt ==
    /\ ~interrupted
    /\ interrupted' = TRUE
    /\ \/ /\ mpc \in TryBlock
          /\ mpc' = "except_interrupt"
          /\ UNCHANGED <<pending, runShutdowns, ws, closevars>>
       \/ /\ mpc = "except_error"
          /\ pending' = "KeyboardInterrupt"
          /\ mpc' = "sd_flag"
          /\ runShutdowns' = runShutdowns + 1
          /\ UNCHANGED <<ws, closevars>>
       \/ /\ mpc = "sd_flag"
          /\ pending' = "KeyboardInterrupt"
          /\ mpc' = "raised"
          /\ UNCHANGED <<runShutdowns, ws, closevars>>
       \/ /\ mpc = "sd_close"
          /\ ws # "none"
          /\ ws_close
          /\ mpc' = AfterShutdown
          /\ UNCHANGED <<pending, runShutdowns>>
    /\ UNCHANGED <<cfgvars, shutdown_flag, configError, connectFailed, sendvars,
                   recvvars, errlog, extvars>>

-----------------------------------------------------------------------------
(***************************************************************************)
(* The sender thread: AudioClient.send_audio                               *)
(***************************************************************************)

\* client.py:30-31.  total_chunks = get_total_chunks(), outside the try: a
\* ZeroDivisionError ends the thread.
SendTotal ==
    /\ spc = "total"
    /\ IF get_total_chunks_raises
       THEN spc' = "died" /\ UNCHANGED total_chunks
       ELSE spc' = "read" /\ total_chunks' = get_total_chunks
    /\ UNCHANGED <<cfgvars, shutdown_flag, ws, mainvars, filePos, chunk,
                   processed_chunks, sendCalls, inflight, recvvars, errlog,
                   extvars, closevars>>

\* client.py:34, audio.py:56-65.  The for loop asks read_chunks for the next
\* chunk: readframes(chunk_frames); no frames left ends the loop.
SendRead ==
    /\ spc = "read"
    /\ LET frames == readframes(filePos, chunk_frames)
       IN  IF frames = <<>>
           THEN spc' = "exhausted" /\ UNCHANGED <<filePos, chunk>>
           ELSE /\ chunk' = frames
                /\ filePos' = filePos + Len(frames)
                /\ spc' = "check"
    /\ UNCHANGED <<cfgvars, shutdown_flag, ws, mainvars, total_chunks,
                   processed_chunks, sendCalls, inflight, recvvars, errlog,
                   extvars, closevars>>

\* client.py:54-56, audio.py:58-60.  Opening or reading the file raises:
\* logged by the outer except and raised again, which ends the thread.
ReadError ==
    /\ spc = "read"
    /\ errlog' = errlog \cup {"processing"}
    /\ spc' = "died"
    /\ UNCHANGED <<cfgvars, shutdown_flag, ws, mainvars, filePos, chunk,
                   total_chunks, processed_chunks, sendCalls, inflight, recvvars,
                   extvars, closevars>>

\* client.py:38, 41.  encoded_data of each ws.send call made so far
sentPayloads == [i \in 1..Len(sendCalls) |-> encode_chunk(sendCalls[i])]

\* A send_audio that does not look at the flag.
SendCheckFlag_ignore ==
    /\ spc = "check"
    /\ spc' = "send"
    /\ UNCHANGED <<cfgvars, shutdown_flag, ws, mainvars, filePos, chunk,
                   total_chunks, processed_chunks, sendCalls, inflight, recvvars,
                   errlog, extvars, closevars>>

\* client.py:35-36.  if self.shutdown_flag.is_set(): break
SendCheckFlag ==
    /\ spc = "check"
    /\ spc' = IF shutdown_flag THEN "stopped" ELSE "send"
    /\ UNCHANGED <<cfgvars, shutdown_flag, ws, mainvars, filePos, chunk,
                   total_chunks, processed_chunks, sendCalls, inflight, recvvars,
                   errlog, extvars, closevars>>

\* client.py:38, 41.  encode the chunk and call self.ws.send(encoded_data);
\* sendCalls records the chunk, sentPayloads gives what went on the wire.
SendCall ==
    /\ spc = "send"
    /\ sendCalls' = Append(sendCalls, chunk)
    /\ inflight' = inflight + 1
    /\ spc' = "sending"
    /\ UNCHANGED <<cfgvars, shutdown_flag, ws, mainvars, filePos, chunk,
                   total_chunks, processed_chunks, recvvars, errlog, extvars,
                   closevars>>

\* client.py:41-47.  ws.send returns (only an open connection delivers):
\* processed_chunks += 1, then the pacing sleep.
SendReturnOk ==
    /\ spc = "sending"
    /\ ws = "open"
    /\ inflight' = inflight - 1
    /\ processed_chunks' = processed_chunks + 1
    /\ spc' = "sleep"
    /\ UNCHANGED <<cfgvars, shutdown_flag, ws, mainvars, filePos, chunk,
                   total_chunks, sendCalls, recvvars, errlog, extvars, closevars>>

\* A send_audio that tries the failed chunk again instead of breaking.
SendReturnFail_retry ==
    /\ spc = "sending"
    /\ inflight' = inflight - 1
    /\ errlog' = errlog \cup {"send"}
    /\ spc' = "send"
    /\ UNCHANGED <<cfgvars, shutdown_flag, ws, mainvars, filePos, chunk,
                   total_chunks, processed_chunks, sendCalls, recvvars, extvars,
                   closevars>>

\* client.py:50-52.  ws.send raises (transport failure, or the connection was
\* closed): logger.error and break.
SendReturnFail ==
    /\ spc = "sending"
    /\ inflight' = inflight - 1
    /\ errlog' = errlog \cup {"send"}
    /\ spc' = "failed"
    /\ UNCHANGED <<cfgvars, shutdown_flag, ws, mainvars, filePos, chunk,
                   total_chunks, processed_chunks, sendCalls, recvvars, extvars,
                   closevars>>

\* client.py:49.  time.sleep(self.chunk_duration) is over: next iteration.
SendSleep ==
    /\ spc = "sleep"
    /\ spc' = "read"
    /\ UNCHANGED <<cfgvars, shutdown_flag, ws, mainvars, filePos, chunk,
                   total_chunks, processed_chunks, sendCalls, inflight, recvvars,
                   errlog, extvars, closevars>>

-----------------------------------------------------------------------------
(***************************************************************************)
(* The receiver thread: AudioClient.receive_messages                       *)
(***************************************************************************)

\* client.py:60-62.  while not self.shutdown_flag.is_set(): call ws.recv()
RecvLoop ==
    /\ rpc = "loop"
    /\ IF shutdown_flag
       THEN rpc' = "done" /\ UNCHANGED recvCalls
       ELSE rpc' = "recv" /\ recvCalls' = TRUE
    /\ UNCHANGED <<cfgvars, shutdown_flag, ws, mainvars, sendvars, errlog,
                   extvars, closevars>>

\* client.py:62-69.  ws.recv() returns a message of the peer; it is logged
\* (as JSON or as text) and the loop goes on.
RecvMessage ==
    /\ rpc = "recv"
    /\ ws = "open"
    /\ rpc' = "loop"
    /\ UNCHANGED <<cfgvars, shutdown_flag, ws, mainvars, sendvars, recvCalls,
                   errlog, extvars, closevars>>

\* client.py:62, 70.  ws.recv() raises on an open connection: the peer closed
\* it or the transport failed.
RecvFailOpen ==
    /\ rpc = "recv"
    /\ ws = "open"
    /\ rpc' = "except"
    /\ UNCHANGED <<cfgvars, shutdown_flag, ws, mainvars, sendvars, recvCalls,
                   errlog, extvars, closevars>>

\* client.py:62, 70.  ws.recv() raises because the connection was closed by
\* this client (what shutdown() relies on to unblock the receiver).
RecvFailClosed ==
    /\ rpc = "recv"
    /\ ws = "closed"
    /\ rpc' = "except"
    /\ UNCHANGED <<cfgvars, shutdown_flag, ws, mainvars, sendvars, recvCalls,
                   errlog, extvars, closevars>>

\* A receive_messages that logs every recv failure.
RecvHandle_log_always ==
    /\ rpc = "except"
    /\ errlog' = errlog \cup {"recv"}
    /\ rpc' = "done"
    /\ UNCHANGED <<cfgvars, shutdown_flag, ws, mainvars, sendvars, recvCalls,
                   extvars, closevars>>

\* client.py:70-73.  except Exception: log unless shutdown was requested; break
RecvHandle ==
    /\ rpc = "except"
    /\ errlog' = IF shutdown_flag THEN errlog ELSE errlog \cup {"recv"}
    /\ rpc' = "done"
    /\ UNCHANGED <<cfgvars, shutdown_flag, ws, mainvars, sendvars, recvCalls,
                   extvars, closevars>>

-----------------------------------------------------------------------------
(***************************************************************************)
(* shutdown() called on the constructed client from another context.       *)
(***************************************************************************)

\* client.py:101-104
ExtShutdownSetFlag ==
    /\ xpc = "idle"
    /\ mpc \notin {"new", "config_error"}
    /\ extCalls < MaxExtraShutdowns
    /\ extCalls' = extCalls + 1
    /\ shutdown_flag' = TRUE
    /\ xpc' = "close"
    /\ UNCHANGED <<cfgvars, ws, mainvars, sendvars, recvvars, errlog, extRaised,
                   closevars>>

\* A shutdown() without the try/except around self.ws.close().
ExtShutdownClose_noswallow ==
    /\ xpc = "close"
    /\ \E closeRaises \in BOOLEAN :
          /\ closeRaises => ws # "none"
          /\ ws_close
          /\ xpc' = "idle"
          /\ extRaised' = (extRaised \/ closeRaises)
    /\ UNCHANGED <<cfgvars, shutdown_flag, mainvars, sendvars, recvvars, errlog,
                   extCalls>>

\* client.py:105-109
ExtShutdownClose ==
    /\ xpc = "close"
    /\ \E closeRaises \in BOOLEAN :
          /\ closeRaises => ws # "none"
          /\ ws_close
          /\ xpc' = "idle"
          /\ UNCHANGED extRaised
    /\ UNCHANGED <<cfgvars, shutdown_flag, mainvars, sendvars, recvvars, errlog,
                   extCalls>>

-----------------------------------------------------------------------------
(***************************************************************************)
(* The ad-hoc client's sender (src/test_client.py), as a function of what  *)
(* its environment does: sched.flagAt is the iteration whose flag test     *)
(* finds the flag set, sched.readErrAt the iteration whose read raises,    *)
(* sched.failAt the iteration whose ws.send raises (0: none).  The result  *)
(* is the chunks passed to ws.send, the logger.error lines and how the     *)
(* thread ends.                                                            *)
(***************************************************************************)

\* test_client.py:80-101.  The loop from file position pos, with the chunks
\* sent so far: `while not self.shutdown_flag.is_set()`, readframes, the end
\* of the file, encode and send, break on a send failure.
RECURSIVE adhoc_stream(_, _, _)
adhoc_stream(pos, sent, sched) ==
    LET iteration == Len(sent) + 1
        frames == readframes(pos, chunk_frames)
    IN  IF sched.flagAt = iteration
        THEN [sends |-> sent, log |-> {}, end |-> "returned"]
        ELSE IF sched.readErrAt = iteration
        THEN [sends |-> sent, log |-> {"processing"}, end |-> "raised"]
        ELSE IF frames = <<>>
        THEN [sends |-> sent, log |-> {}, end |-> "returned"]
        ELSE IF sched.failAt = iteration
        THEN [sends |-> Append(sent, frames), log |-> {"send"}, end |-> "returned"]
        ELSE adhoc_stream(pos + Len(frames), Append(sent, frames), sched)

\* test_client.py:66-105.  send_audio: the chunk count is computed inside the
\* try block, so its ZeroDivisionError is logged by `except Exception` and
\* raised again; then the loop.
adhoc_send_audio(sched) ==
    IF chunk_frames = 0
    THEN [sends |-> <<>>, log |-> {"processing"}, end |-> "raised"]
    ELSE adhoc_stream(0, <<>>, sched)

-----------------------------------------------------------------------------
Next ==
    \/ Construct
    \/ Run
    \/ RunCreate
    \/ RunConnectOk
    \/ RunConnectFail
    \/ RunStartSender
    \/ RunStartReceiver
    \/ RunJoinSender
    \/ RunJoinReceiver
    \/ RunExceptInterrupt
    \/ RunExceptError
    \/ ShutdownSetFlag
    \/ ShutdownClose
    \/ Interrupt
    \/ SendTotal
    \/ SendRead
    \/ ReadError
    \/ SendCheckFlag
    \/ SendCall
    \/ SendReturnOk
    \/ SendReturnFail
    \/ SendSleep
    \/ RecvLoop
    \/ RecvMessage
    \/ RecvFailOpen
    \/ RecvFailClosed
    \/ RecvHandle
    \/ ExtShutdownSetFlag
    \/ ExtShutdownClose

Spec == Init /\ [][Next]_vars

(***************************************************************************)
(* Fairness.  The interpreter keeps running every thread that can take a   *)
(* step: the caller's thread, the sender (ws.send returns or raises, the   *)
(* sleep ends) and the receiver, whose blocked ws.recv() raises once this  *)
(* client has closed the connection; a shutdown() call that was started    *)
(* runs to its end.  Nothing obliges the environment: the peer need not    *)
(* send or close, the transport need not fail, no interrupt or further     *)
(* shutdown() call need come.                                              *)
(***************************************************************************)
CallerStep ==
    \/ Construct \/ Run \/ RunCreate \/ RunConnectOk \/ RunConnectFail
    \/ RunStartSender \/ RunStartReceiver \/ RunJoinSender \/ RunJoinReceiver
    \/ RunExceptInterrupt \/ RunExceptError \/ ShutdownSetFlag \/ ShutdownClose

SenderStep ==
    \/ SendTotal \/ SendRead \/ SendCheckFlag \/ SendCall
    \/ SendReturnOk \/ SendReturnFail \/ SendSleep

ReceiverStep == RecvLoop \/ RecvFailClosed \/ RecvHandle

FairSpec ==
    /\ Spec
    /\ WF_vars(CallerStep)
    /\ WF_vars(SenderStep)
    /\ WF_vars(ReceiverStep)
    /\ WF_vars(ExtShutdownClose)

-----------------------------------------------------------------------------
(***************************************************************************)
(* Properties                                                              *)
(***************************************************************************)

\* the payloads of the file's chunks, in file order
FilePayloads == [i \in 1..Len(read_chunks) |-> encode_chunk(read_chunks[i])]

\* run() is over: it returned or an exception left it
RunEnded == mpc \in {"returned", "raised"}

\* a thread that is not running: never started, or ended
SenderNotRunning == spc = "idle" \/ SenderEnded
ReceiverNotRunning == rpc = "idle" \/ ReceiverEnded

\* C1: the payloads passed to ws.send are always a prefix of the file's chunk
\* payloads in file order (nothing sent twice, skipped or reordered), at most
\* one ws.send call is in flight, and no send call is in flight while the
\* sender reads, checks or encodes the next chunk.
C1_SendsArePrefixInOrder ==
    /\ Len(sentPayloads) <= Len(FilePayloads)
    /\ sentPayloads = SubSeq(FilePayloads, 1, Len(sentPayloads))
    /\ inflight \in {0, 1}
    /\ inflight = 1 <=> spc = "sending"
    /\ spc \in {"read", "check", "send"} =>
          /\ inflight = 0
          /\ processed_chunks = Len(sendCalls)

\* C1 witness: a file of at least two chunks was sent whole, in order.
C1_Witness ==
    /\ spc = "exhausted"
    /\ Len(sentPayloads) >= 2
    /\ sentPayloads = FilePayloads

\* C2: once the sender has exhausted the chunks with the flag clear, and no
\* interrupt comes, the flag gets set, the receiver exits, the transport is
\* closed and run() returns, whatever the peer and the transport do.
C2_ExhaustionEndsSession ==
    (spc = "exhausted" /\ sendCalls # <<>> /\ ~shutdown_flag /\ ~interrupted)
        ~> (interrupted \/ (shutdown_flag /\ rpc = "done" /\ closeCalls > 0
                            /\ mpc = "returned"))

\* C3: once ws.send has failed with chunks remaining, no further send call is
\* made, and (no interrupt coming) the shutdown flag gets set.
C3_SendFailureStopsSession ==
    /\ [][spc = "failed" => sendCalls' = sendCalls]_vars
    /\ (spc = "failed" /\ filePos < Len(wav.frames) /\ ~interrupted)
           ~> (interrupted \/ shutdown_flag)

\* C4: once the receiver has logged a recv failure and exited, the sender's
\* next flag check finds the flag set and stops the sender.
C4_RecvFailureStopsSender ==
    [][(rpc = "done" /\ "recv" \in errlog /\ spc = "check" /\ spc' # "check")
          => spc' = "stopped"]_vars

\* C5 (as claimed): when run() has returned, shutdown() was invoked exactly
\* once, the flag is set and the transport's close has been requested.
C5_Original ==
    mpc = "returned" => (runShutdowns = 1 /\ shutdown_flag /\ closeCalls >= 1)

\* C5 (amended): run() invokes shutdown() exactly once, when it leaves its try
\* block, and nothing of run() follows it; when run() has returned the flag is
\* set and, if the WebSocket object had been created, its close has been
\* requested and the connection is not open.
C5_ShutdownOnceAtEnd ==
    /\ runShutdowns = (IF mpc \in {"sd_flag", "sd_close", "returned", "raised"}
                       THEN 1 ELSE 0)
    /\ mpc = "returned" =>
          /\ shutdown_flag
          /\ ws # "none" => (closeCalls >= 1 /\ ws # "open")

\* C5 witness: run() returned after an interrupt that came before the
\* WebSocket object existed; shutdown() ran once and set the flag.
C5_Witness ==
    /\ mpc = "returned"
    /\ interrupted
    /\ ws = "none"
    /\ shutdown_flag
    /\ runShutdowns = 1

\* C6: when run() is over after having started both threads, the sender and
\* the receiver have both ended.
C6_DutiesExitedAtReturn ==
    (RunEnded /\ spc # "idle" /\ rpc # "idle") => (SenderEnded /\ ReceiverEnded)

\* C7: an interrupt delivered while the threads are being started or joined
\* leads to the flag set, the connection closed and both threads ended.
C7_InterruptStopsDuties ==
    (mpc = "except_interrupt" /\ spc # "idle")
        ~> (shutdown_flag /\ ws = "closed" /\ SenderNotRunning /\ ReceiverNotRunning)

\* C7 witness: after an interrupt run() returned, the sender stopped at its
\* flag check and the receiver left its recv call without logging an error.
C7_Witness ==
    /\ interrupted
    /\ mpc = "returned"
    /\ spc = "stopped"
    /\ rpc = "done"
    /\ recvCalls
    /\ "recv" \notin errlog

\* C8 (as claimed): the transport's close is performed at most once.
C8_Original == closeCalls <= 1

\* C8 (amended): a further shutdown() call raises nothing and leaves the flag
\* set; it calls close() again, and only because close() does nothing on a
\* connection that is not open is a connection closed at most once.
C8_ShutdownIdempotent ==
    /\ ~extRaised
    /\ extCalls > 0 => shutdown_flag
    /\ closeEffects <= 1
    /\ closeCalls <= 1 + extCalls

\* C8 witness: shutdown() ran to its end twice (run()'s call and a further
\* one); close() was called twice and one connection was closed once.
C8_Witness ==
    /\ mpc = "returned"
    /\ xpc = "idle"
    /\ extCalls >= 1
    /\ closeCalls >= 2
    /\ closeEffects = 1

\* C9: after a failed connect neither thread is ever started, no send or recv
\* call is made, the connection is never open, and run() still calls
\* shutdown() once, which sets the flag and lets no close error out.
C9_ConnectFailure ==
    connectFailed =>
        /\ spc = "idle" /\ rpc = "idle"
        /\ sendCalls = <<>> /\ ~recvCalls /\ inflight = 0
        /\ ws = "created"
        /\ RunEnded => runShutdowns = 1
        /\ mpc = "returned" => (shutdown_flag /\ closeCalls >= 1)
        /\ mpc = "raised" => pending = "KeyboardInterrupt"

\* C9 witness: connect failed, the error was logged and run() returned.
C9_Witness ==
    /\ connectFailed
    /\ mpc = "returned"
    /\ ~interrupted
    /\ "run" \in errlog

\* C10 (as claimed): no exception ever leaves run().
C10_Original == mpc # "raised"

\* C10 (amended): no connect, send, recv or close failure leaves run(), nor
\* does an interrupt delivered inside the try block; the only exception that
\* can leave run() is the KeyboardInterrupt of an interrupt delivered after the
\* try block was left (connect had failed or both threads had been joined).
\* The constructor raises exactly for the configurations validation rejects.
C10_OnlyLateInterruptEscapes ==
    /\ mpc = "raised" =>
          /\ pending = "KeyboardInterrupt"
          /\ interrupted
          /\ connectFailed \/ (SenderEnded /\ ReceiverEnded)
    /\ mpc = "except_interrupt" => pending = "none"
    /\ mpc = "config_error" <=> configError # "none"
    /\ mpc \notin {"new", "config_error"} => validate_config = "ok"
    /\ configError # "none" => configError = validate_config

\* C10 witness: a send failure, a recv failure and an interrupt inside the
\* try block all happened and run() returned normally.
C10_Witness ==
    /\ mpc = "returned"
    /\ interrupted
    /\ {"send", "recv"} \subseteq errlog

\* the six checks of the claimed order that the configuration violates; the
\* three checks on the file's header apply to a file that reads as WAV
C11_Violated ==
    {i \in 1..6 :
        \/ i = 1 /\ ~source_exists
        \/ i = 2 /\ chunk_duration <= 0
        \/ i = 3 /\ sample_rate <= 0
        \/ i = 4 /\ wav.ok /\ wav.framerate # sample_rate
        \/ i = 5 /\ wav.ok /\ wav.sampwidth # 2
        \/ i = 6 /\ wav.ok /\ wav.nchannels # 1}

\* the error of each of the six checks, in the claimed order
C11_ErrorOf ==
    <<"not_found", "bad_duration", "bad_rate", "rate_mismatch", "bad_width",
      "bad_channels">>

\* the first check of the claimed order that fails
C11_First == CHOOSE i \in C11_Violated : \A j \in C11_Violated : i <= j

\* C11: validation reports the error of the first failing check in the order
\* existence, duration, rate, file rate, sample width, channels; the six
\* errors are pairwise distinct; a configuration passing all six is accepted
\* (a file that does not read as WAV and passes the first three checks gets a
\* seventh error); the constructor raises exactly what validation reports.
C11_FirstFailingCheckDecides ==
    /\ Cardinality({C11_ErrorOf[i] : i \in 1..6}) = 6
    /\ C11_Violated # {} => validate_config = C11_ErrorOf[C11_First]
    /\ (C11_Violated = {} /\ wav.ok) => validate_config = "ok"
    /\ (C11_Violated = {} /\ ~wav.ok) => validate_config = "invalid_wav"
    /\ mpc = "config_error" => configError = validate_config
    /\ mpc \notin {"new", "config_error"} =>
          (C11_Violated = {} /\ configError = "none")

\* C11 witness: the constructor rejected an existing file whose configuration
\* violates the duration, the rate and the file-rate check at once, with the
\* error of the duration check.
C11_Witness ==
    /\ mpc = "config_error"
    /\ {2, 3, 4} \subseteq C11_Violated
    /\ 1 \notin C11_Violated
    /\ configError = "bad_duration"

\* the chunks of a sequence of chunks, joined in order
RECURSIVE Concat(_)
Concat(cs) == IF cs = <<>> THEN <<>> ELSE Head(cs) \o Concat(Tail(cs))

\* ceil(f / c) for f >= 0 and c >= 1: the least n with n * c >= f
CeilDiv(f, c) == CHOOSE n \in 0..f : n * c >= f /\ (n = 0 \/ (n - 1) * c < f)

\* C12: with a chunk size C >= 1 and a file of F frames, read_chunks yields
\* ceil(F/C) chunks, each of C frames except the last, which has F mod C
\* frames (C when that is 0); joined in order they are the file's samples; and
\* the sender's loop over them ends, without error, at the end of the file,
\* every chunk it holds being the file's frames just before its read position.
C12_ChunksPartitionFile ==
    chunk_frames >= 1 =>
        LET F == Len(wav.frames)
            C == chunk_frames
            cs == read_chunks
            n == Len(cs)
        IN  /\ n = CeilDiv(F, C)
            /\ \A i \in 1..(n - 1) : Len(cs[i]) = C
            /\ n > 0 => Len(cs[n]) = (IF F % C = 0 THEN C ELSE F % C)
            /\ Concat(cs) = wav.frames
            /\ spc = "exhausted" => (filePos = F /\ "processing" \notin errlog)
            /\ spc \in {"check", "send", "sending", "sleep"} =>
                  /\ chunk = cs[CeilDiv(filePos, C)]
                  /\ chunk = SubSeq(wav.frames, filePos - Len(chunk) + 1, filePos)

\* C12 witness: the sender went through a file whose last chunk is short and
\* sent its two or more chunks.
C12_Witness ==
    /\ spc = "exhausted"
    /\ chunk_frames >= 2
    /\ Len(wav.frames) % chunk_frames # 0
    /\ Len(read_chunks) >= 2
    /\ Len(sendCalls) = Len(read_chunks)

\* floor(p / q) for p >= 0 and q >= 1: the greatest k with k * q <= p
FloorDiv(p, q) == CHOOSE k \in 0..p : k * q <= p /\ (k + 1) * q > p

\* C13: for a validated source whose chunk size floor(duration * rate) is at
\* least 1, get_total_chunks() is ceil(frames / floor(duration * rate)), and
\* that is the number of chunks read_chunks yields; it is the total_chunks
\* the sender works with.
C13_TotalChunksIsCeil ==
    (validate_config = "ok" /\ chunk_frames >= 1) =>
        /\ chunk_frames = FloorDiv(chunk_duration * sample_rate, DurDen)
        /\ get_total_chunks = CeilDiv(Len(wav.frames), chunk_frames)
        /\ get_total_chunks = Len(read_chunks)
        /\ spc \notin {"idle", "total"} => total_chunks = Len(read_chunks)

\* C13 witness: duration * rate is not a whole number of frames, the sender
\* counted two or more chunks and then read exactly that many.
C13_Witness ==
    /\ (chunk_duration * sample_rate) % DurDen # 0
    /\ spc = "exhausted"
    /\ total_chunks >= 2
    /\ processed_chunks = total_chunks

\* C14: the sender of a validated source always gets past the chunk count:
\* get_total_chunks() does not raise, so the sender thread never ends there
\* (it only dies of a read error, which is logged).
C14_TotalChunksNeverRaises ==
    /\ spc # "idle" => ~get_total_chunks_raises
    /\ spc = "died" => "processing" \in errlog

\* the receiving side of the claim: base64 text (as alphabet indices, 64 the
\* padding) back to bytes
RECURSIVE b64decode(_)
b64decode(c) ==
    IF Len(c) < 4 THEN <<>>
    ELSE LET b1 == c[1] * 4 + (c[2] \div 16)
             b2 == (c[2] % 16) * 16 + (c[3] % 64) \div 4
             b3 == (c[3] % 4) * 64 + (c[4] % 64)
         IN  (IF c[3] = 64 THEN <<b1>>
              ELSE IF c[4] = 64 THEN <<b1, b2>>
              ELSE <<b1, b2, b3>>) \o b64decode(SubSeq(c, 5, Len(c)))

\* four little-endian bytes read as an IEEE-754 single x (normal or zero),
\* given as the fraction num / den = x * 32768 with its sign
Float32Scaled(b) ==
    LET sign == b[4] \div 128
        biased == (b[4] % 128) * 2 + (b[3] \div 128)
        mant == (b[3] % 128) * 65536 + b[2] * 256 + b[1]
    IN  IF biased = 0 /\ mant = 0 THEN [neg |-> sign = 1, num |-> 0, den |-> 1]
        ELSE IF biased >= 135
             THEN [neg |-> sign = 1, num |-> (8388608 + mant) * Pow2(biased - 135),
                   den |-> 1]
             ELSE [neg |-> sign = 1, num |-> 8388608 + mant,
                   den |-> Pow2(135 - biased)]

\* a fraction rounded to the nearest integer, halves to the even one
RoundFraction(f) ==
    LET q == f.num \div f.den
        r == f.num % f.den
        m == IF 2 * r > f.den \/ (2 * r = f.den /\ q % 2 = 1) THEN q + 1 ELSE q
    IN  IF f.neg THEN 0 - m ELSE m

\* the samples a receiver gets back from a payload: decode, read as float32,
\* multiply by 32768, round
DecodeSamples(payload) ==
    LET b == b64decode(payload)
    IN  [i \in 1..(Len(b) \div 4) |->
            RoundFraction(Float32Scaled(SubSeq(b, 4 * i - 3, 4 * i)))]

\* whether the payload of a chunk carries exactly s / 32768 for each sample s
\* of the chunk, and 4 bytes per sample
LosslessPayload(c) ==
    LET payload == encode_chunk(c)
        b == b64decode(payload)
    IN  /\ Len(b) = 4 * Len(c)
        /\ Len(payload) = 4 * ((Len(b) + 2) \div 3)
        /\ \A i \in 1..Len(c) :
              LET f == Float32Scaled(SubSeq(b, 4 * i - 3, 4 * i))
              IN  /\ f.num % f.den = 0
                  /\ (IF f.neg THEN 0 - (f.num \div f.den) ELSE f.num \div f.den) = c[i]
                  /\ f.num \div f.den <= 32768
                  /\ (f.num \div f.den = 32768) => (f.neg /\ c[i] = 0 - 32768)
        /\ DecodeSamples(payload) = c

\* int16 values over the whole range, besides those of the explored files
ProbeSamples ==
    {0, 1, 0 - 1, 2, 3, 0 - 3, 255, 256, 0 - 257, 12345, 0 - 12345, 16384,
     0 - 16384, 32766, 32767, 0 - 32767, 0 - 32768}

\* C15: a chunk's payload decodes to as many values as the chunk has samples
\* (4 bytes each), in order, each exactly s / 32768, a value in [-1, 1) that
\* is -1 only for s = -32768; multiplied by 32768 and rounded they are the
\* original samples.  Checked for a set of int16 values and the chunks of
\* every explored file (encode_chunk depends on nothing but the chunk, so once
\* per configuration), for the chunk in the sender's hands and for every
\* payload sent.
C15_EncodeRoundTrip ==
    /\ mpc = "new" =>
          /\ \A s \in ProbeSamples : LosslessPayload(<<s>>)
          /\ chunk_frames >= 1 =>
                \A i \in 1..Len(read_chunks) : LosslessPayload(read_chunks[i])
    /\ spc \in {"check", "send"} => LosslessPayload(chunk)
    /\ \A i \in 1..Len(sentPayloads) : DecodeSamples(sentPayloads[i]) = sendCalls[i]

\* C15 witness: a payload carrying a chunk of two or more samples of both
\* signs was sent and decodes to that chunk.
C15_Witness ==
    /\ sendCalls # <<>>
    /\ Len(sendCalls[1]) >= 2
    /\ \E i, j \in 1..Len(sendCalls[1]) : sendCalls[1][i] > 0 /\ sendCalls[1][j] < 0
    /\ DecodeSamples(sentPayloads[1]) = sendCalls[1]

\* C16: every ws.send call follows a flag check of the same iteration that
\* found the flag clear, and a check that finds it set ends the sender without
\* a send.  The flag is never cleared, so once it is set the sender makes at
\* most one more send call (the one whose check came before the set: the
\* sender stood between check and send) and from then on none; and it exits.
C16_AtMostOneSendAfterFlag ==
    /\ [][sendCalls' # sendCalls =>
            (spc = "send" /\ spc' = "sending" /\ sendCalls' = Append(sendCalls, chunk))]_vars
    /\ [][spc' = "send" => (spc = "send" \/ (spc = "check" /\ ~shutdown_flag))]_vars
    /\ [][(spc = "check" /\ shutdown_flag /\ spc' # spc) => spc' = "stopped"]_vars
    /\ [][shutdown_flag => shutdown_flag']_vars
    /\ [][(shutdown_flag /\ spc # "send") => (sendCalls' = sendCalls /\ spc' # "send")]_vars
    /\ (shutdown_flag /\ spc # "idle") ~> SenderEnded

\* C16 witness: the flag was set while the sender, having sent a chunk before,
\* stood between its check (flag clear) and the send of the next chunk: the
\* one further send call is about to be made.
C16_Witness ==
    /\ shutdown_flag
    /\ spc = "send"
    /\ Len(sendCalls) >= 1
    /\ filePos < Len(wav.frames)

\* C17: the connection is closed by this client only with the flag already
\* set, and the flag is never cleared; so a recv failure caused by that close,
\* and any recv failure handled after shutdown was requested, finds the flag
\* set and the receiver exits without logging; the receiver logs a recv error
\* exactly when the flag is clear as it handles the failure.
C17_RecvFailureAfterShutdownSilent ==
    /\ [](ws = "closed" => shutdown_flag)
    /\ [][shutdown_flag => shutdown_flag']_vars
    /\ [][(rpc = "recv" /\ rpc' = "except" /\ ws # "open") => shutdown_flag]_vars
    /\ [][(rpc = "except" /\ rpc' = "done") =>
            errlog' = (IF shutdown_flag THEN errlog ELSE errlog \cup {"recv"})]_vars
    /\ [][("recv" \in errlog' /\ "recv" \notin errlog) =>
            (rpc = "except" /\ ~shutdown_flag)]_vars

\* C17 witness: the receiver's blocked recv failed because shutdown() closed
\* the connection; nothing of it was logged and the failure is about to be
\* handled with the flag set.
C17_Witness ==
    /\ rpc = "except"
    /\ ws = "closed"
    /\ shutdown_flag
    /\ "recv" \notin errlog

\* what the environment did to the modular sender that has ended, read off
\* its state: after processed_chunks successful sends the next iteration
\* found the flag set, or its read raised, or its send raised
SenderSchedule ==
    LET next == processed_chunks + 1
    IN  [flagAt |-> IF spc = "stopped" THEN next ELSE 0,
         readErrAt |-> IF spc = "died" /\ "processing" \in errlog THEN next ELSE 0,
         failAt |-> IF spc = "failed" THEN next ELSE 0]

\* what the modular sender did: the chunks passed to ws.send, its error lines
\* and how its thread ended
SenderOutcome ==
    [sends |-> sendCalls,
     log |-> errlog \cap {"send", "processing"},
     end |-> IF spc = "died" THEN "raised" ELSE "returned"]

\* C18: whenever the modular sender has ended, the ad-hoc sender given the
\* same source, configuration, send and read outcomes and flag observations
\* makes the same send calls, logs the same errors and ends the same way.
C18_ClientsEquivalent ==
    SenderEnded => adhoc_send_audio(SenderSchedule) = SenderOutcome

\* round(chunk_duration * sample_rate), halves to the even integer
RoundedFrames ==
    RoundFraction([neg |-> FALSE, num |-> chunk_duration * sample_rate, den |-> DurDen])

\* the sender holds a chunk that is not the last of the file
HoldsInnerChunk ==
    /\ spc \in {"check", "send", "sending", "sleep"}
    /\ filePos < Len(wav.frames)

\* C19 (as claimed): every chunk but the last has round(duration * rate)
\* frames.
C19_Original == HoldsInnerChunk => Len(chunk) = RoundedFrames

\* C19 (amended): every chunk but the last has floor(duration * rate) frames,
\* the product truncated, not rounded: the chunks read_chunks yields for any
\* chunk size of at least 1, and the chunk the sender holds.
C19_InnerChunksAreFloor ==
    /\ chunk_frames >= 1 =>
          \A i \in 1..(Len(read_chunks) - 1) :
              Len(read_chunks[i]) = FloorDiv(chunk_duration * sample_rate, DurDen)
    /\ HoldsInnerChunk => Len(chunk) = FloorDiv(chunk_duration * sample_rate, DurDen)

\* C19 witness: duration * rate is not a whole number, rounds up, and the
\* sender holds a chunk that is not the last.
C19_Witness ==
    /\ HoldsInnerChunk
    /\ (chunk_duration * sample_rate) % DurDen # 0
    /\ RoundedFrames > Len(chunk)

\* C20: a sender that has ended without a send failure, a read failure or a
\* set flag at one of its checks has made exactly get_total_chunks()
\* successful send calls, one for each chunk of the file in order, and has
\* left its loop at the end of the file; and at no time do the successful
\* sends exceed get_total_chunks().
C20_SendsExactlyTotal ==
    /\ (SenderEnded /\ spc # "stopped" /\ errlog \cap {"send", "processing"} = {}) =>
          /\ spc = "exhausted"
          /\ ~get_total_chunks_raises
          /\ processed_chunks = get_total_chunks
          /\ sendCalls = read_chunks
    /\ (spc # "idle" /\ ~get_total_chunks_raises) =>
          /\ processed_chunks <= get_total_chunks
          /\ Len(sendCalls) <= get_total_chunks

=============================================================================
